---- MODULE Spec2Model ----
(***************************************************************************)
(* Order sizing and execution dispatch of ai-hedge-fund-crypto:            *)
(*   src/src/gateway/order_executor.py   (OrderExecutor)                   *)
(*   src/src/graph/order_execution_node.py (OrderExecutionNode)            *)
(*                                                                         *)
(* Numbers.  Quantities, step sizes, minimum quantities and notional       *)
(* values are integers counting 10^-9 (Nano of them make 1.0); prices are  *)
(* whole numbers of the quote asset, 0 standing for "no price".  Python    *)
(* floats are modelled by these exact decimals: binary representation      *)
(* error is not modelled, and a decimal tie in round() or in a format      *)
(* conversion goes to the even neighbour.                                  *)
(*                                                                         *)
(* Strings.  A quantity string is the pair (val, dp): its numeric value    *)
(* and the number of decimals it shows ("0.60000000" is (600000000, 8),    *)
(* "0.6" is (600000000, 1)), so float(s) is s.val.                         *)
(***************************************************************************)
EXTENDS Integers, Sequences, FiniteSets, TLC

VARIABLES
    requested,          \* the enable_execution argument the node was built with
    enable_execution,   \* OrderExecutionNode.enable_execution
    order_executor,     \* OrderExecutionNode.order_executor is not None
    cache,              \* OrderExecutor._symbol_info_cache
    pc,                 \* position of __call__: idle, running, done, failed, raised
    content,            \* what the last message's content was, in this dispatch
    batch,              \* the tickers of the decisions dict, in its order
    decisions,          \* the decisions dict
    idx,                \* loop position in batch (next ticker to process)
    results,            \* execution_results
    report,             \* execution_summary
    calls,              \* exchange calls made for each ticker in this dispatch
    env,                \* exchange responses consumed for each ticker
    cache0,             \* the symbol cache when this dispatch started
    ndisp,              \* dispatches started so far
    nin,                \* arguments of a direct _format_quantity call
    nout,               \* its return value
    callers,            \* threads inside _get_symbol_info: position and locals
    loop                \* a _format_quantity call followed step by step

vars == <<requested, enable_execution, order_executor, cache, pc, content, batch,
          decisions, idx, results, report, calls, env, cache0, ndisp, nin, nout,
          callers, loop>>

dispatchVars == <<requested, enable_execution, order_executor, cache, pc, content, batch, decisions,
                  idx, results, report, calls, env, cache0, ndisp>>

(***************************************************************************)
(* Decimal arithmetic                                                      *)
(***************************************************************************)
Nano == 10^9

Max(a, b) == IF a >= b THEN a ELSE b

CeilDiv(a, b) == (a + b - 1) \div b

\* Python round(a / b) for a >= 0, b > 0: nearest integer, ties to even.
RoundHalfEven(a, b) ==
    LET q == a \div b
        r == a % b
    IN  IF r < b - r THEN q
        ELSE IF r > b - r THEN q + 1
        ELSE IF q % 2 = 0 THEN q ELSE q + 1

RECURSIVE StripZeros(_)
StripZeros(n) == IF n > 0 /\ n % 10 = 0 THEN StripZeros(n \div 10) ELSE n

RECURSIVE NumDigits(_)
NumDigits(n) == IF n < 10 THEN 1 ELSE 1 + NumDigits(n \div 10)

RECURSIVE TrailingZeros(_)
TrailingZeros(n) == IF n > 0 /\ n % 10 = 0 THEN 1 + TrailingZeros(n \div 10) ELSE 0

\* Number of fractional decimal digits of v once trailing zeros are dropped.
FracDigits(v) ==
    LET f == v % Nano
    IN  IF f = 0 THEN 0 ELSE 9 - TrailingZeros(f)

(***************************************************************************)
(* Quantity strings                                                        *)
(***************************************************************************)
QStr(val, dp) == [val |-> val, dp |-> dp]

\* f"{quantity:.{precision}f}"
FormatFixed(quantity, precision) ==
    LET u == 10^(9 - precision)
    IN  QStr(RoundHalfEven(quantity, u) * u, precision)

\* s.rstrip('0').rstrip('.')
RStrip(s) == QStr(s.val, IF FracDigits(s.val) < s.dp THEN FracDigits(s.val) ELSE s.dp)

\* str(int(quantity)), quantity >= 0
IntStr(quantity) == QStr((quantity \div Nano) * Nano, 0)

\* len(str(step_size).split('.')[-1].rstrip('0')): str() of a float below 1e-4
\* is scientific ("1e-06", "2.5e-05"), and then the text after the last '.' is
\* the mantissa's fraction digits (the whole mantissa when it has no '.')
\* followed by "e-0X", four characters for the exponents -5..-9.
StepStrFracLen(step_size) ==
    IF step_size = 0 THEN 0
    ELSE IF step_size >= Nano \div 10000 THEN FracDigits(step_size)
    ELSE LET m == NumDigits(StripZeros(step_size)) - 1
         IN  (IF m = 0 THEN 1 ELSE m) + 4

(***************************************************************************)
(* Exchange metadata and responses                                         *)
(***************************************************************************)
Filter(filterType, stepSize, minQty, minNotional) ==
    [filterType |-> filterType, stepSize |-> stepSize, minQty |-> minQty,
     minNotional |-> minNotional]

LotSize(stepSize, minQty) == Filter("LOT_SIZE", stepSize, minQty, 0)
Notional(minNotional) == Filter("NOTIONAL", 0, 0, minNotional)
NoFilter == Filter("<none>", 0, 0, 0)

SymbolInfo(filters) == [filters |-> filters]
NoInfo == SymbolInfo(<< >>)

\* One response of the exchange to get_exchange_info, as far as one symbol is
\* concerned: the call raises, or the symbol is absent from the list, or it is
\* listed with this symbol info.
MetaRaise == [kind |-> "raise", info |-> NoInfo]
MetaAbsent == [kind |-> "absent", info |-> NoInfo]
MetaListed(info) == [kind |-> "listed", info |-> info]
MetaNotCalled == [kind |-> "not_called", info |-> NoInfo]

\* get_symbol_ticker: a price, or an exception.
PriceOf(p) == [kind |-> "price", price |-> p]
PriceRaise == [kind |-> "raise", price |-> 0]
PriceNotCalled == [kind |-> "not_called", price |-> 0]

\* An order submission: accepted, or rejected with the exchange's message.
OrderFilled == [kind |-> "filled", msg |-> ""]
OrderRejected(msg) == [kind |-> "rejected", msg |-> msg]
OrderNotCalled == [kind |-> "not_called", msg |-> ""]

EnvOf(meta, price, order) == [meta |-> meta, price |-> price, order |-> order]
NoEnv == EnvOf(MetaNotCalled, PriceNotCalled, OrderNotCalled)

\* A call on the exchange client.
NoQty == QStr(-1, -1)
Call(op, symbol, side, type, quantity, isIsolated) ==
    [op |-> op, symbol |-> symbol, side |-> side, type |-> type,
     quantity |-> quantity, isIsolated |-> isIsolated]
GetExchangeInfo == Call("get_exchange_info", "", "", "", NoQty, "")
GetSymbolTicker(symbol) == Call("get_symbol_ticker", symbol, "", "", NoQty, "")
OrderOps == {"order_market_buy", "order_market_sell", "create_margin_order"}

(***************************************************************************)
(* OrderExecutor._get_symbol_info                                          *)
(***************************************************************************)
NotCached == [cached |-> FALSE, info |-> NoInfo]
Cached(info) == [cached |-> TRUE, info |-> info]

\* A lookup that asks the exchange every time and keeps what it last got.
get_symbol_info_refetched(entry, meta) ==
    IF meta.kind = "listed"
    THEN [ok |-> TRUE, info |-> meta.info, entry |-> Cached(meta.info),
          calls |-> <<GetExchangeInfo>>]
    ELSE [ok |-> FALSE, info |-> NoInfo, entry |-> entry,
          calls |-> <<GetExchangeInfo>>]

\* entry: the cache's entry for the symbol; meta: the exchange's response if
\* it is asked.  ok is FALSE when the method raises.
get_symbol_info(entry, meta) ==
    IF entry.cached
    THEN [ok |-> TRUE, info |-> entry.info, entry |-> entry, calls |-> << >>]
    ELSE IF meta.kind = "listed"
    THEN [ok |-> TRUE, info |-> meta.info, entry |-> Cached(meta.info),
          calls |-> <<GetExchangeInfo>>]
    ELSE [ok |-> FALSE, info |-> NoInfo, entry |-> entry,
          calls |-> <<GetExchangeInfo>>]

(***************************************************************************)
(* OrderExecutor._format_quantity                                          *)
(***************************************************************************)
\* The filter scan of lines 64-70: the last LOT_SIZE filter, and the last
\* filter that is NOTIONAL or MIN_NOTIONAL.
RECURSIVE LastFilter(_, _, _)
LastFilter(filters, types, i) ==
    IF i = 0 THEN NoFilter
    ELSE IF filters[i].filterType \in types THEN filters[i]
    ELSE LastFilter(filters, types, i - 1)

lot_size_filter(info) == LastFilter(info.filters, {"LOT_SIZE"}, Len(info.filters))
notional_filter(info) ==
    LastFilter(info.filters, {"NOTIONAL", "MIN_NOTIONAL"}, Len(info.filters))

\* value < min_notional * 1.001, for value and min_notional counted in 10^-9:
\* an integer is below m * 1001 / 1000 exactly when it is below m + ceil(m / 1000).
BelowMargin(value, min_notional) == value < min_notional + CeilDiv(min_notional, 1000)

\* The while loop of lines 111-112.
RECURSIVE NotionalLoop(_, _, _, _)
NotionalLoop(quantity, current_price, min_notional, step_size) ==
    IF BelowMargin(quantity * current_price, min_notional)
    THEN NotionalLoop(quantity + (IF step_size > 0 THEN step_size ELSE Nano \div 10),
                      current_price, min_notional, step_size)
    ELSE quantity

Precision(step_size) == IF step_size < Nano THEN StepStrFracLen(step_size) ELSE 0

FormatOut(out, path, priced, f, min_notional, current_price, quantity) ==
    [out |-> out, path |-> path, priced |-> priced, step_size |-> f.stepSize,
     min_qty |-> f.minQty, min_notional |-> min_notional,
     current_price |-> current_price, quantity |-> quantity]

\* A price of 1 assumed when the ticker call fails.
CurrentPriceOrOne(ticker_price) ==
    IF ticker_price.kind = "price" THEN ticker_price.price ELSE 1

\* min_notional, lines 77-79, and current_price, lines 82-87 (0: no price).
MinNotionalOf(notional) == IF notional # NoFilter THEN notional.minNotional ELSE 0
CurrentPriceOf(ticker_price) ==
    IF ticker_price.kind = "price" THEN ticker_price.price ELSE 0

\* The test "min_notional > 0 and current_price" of lines 94, 110 and 131.
Checked(min_notional, current_price) == min_notional > 0 /\ current_price > 0

\* An effective minimum that leaves the notional requirement out.
EffectiveMinQtyOfLot(min_qty, min_notional, current_price) == min_qty

\* effective_min_qty, lines 93-98.
EffectiveMinQty(min_qty, min_notional, current_price) ==
    Max(min_qty, IF Checked(min_notional, current_price)
                 THEN min_notional \div current_price ELSE 0)

\* Lines 101-103.
Raised(quantity, effective_min_qty) ==
    IF quantity < effective_min_qty THEN effective_min_qty ELSE quantity

\* Lines 106-107.
Snapped(quantity, step_size) ==
    IF step_size > 0 THEN RoundHalfEven(quantity, step_size) * step_size ELSE quantity

\* Lines 110-112.
Corrected(quantity, current_price, min_notional, step_size) ==
    IF Checked(min_notional, current_price)
    THEN NotionalLoop(quantity, current_price, min_notional, step_size)
    ELSE quantity

\* Lines 120-126.
Formatted(quantity, step_size) ==
    IF Precision(step_size) = 0
    THEN IntStr(quantity)
    ELSE RStrip(FormatFixed(quantity, Precision(step_size)))

\* The final guard, lines 131-135, then the return of line 137 or, the
\* ValueError caught at line 143, the return of line 146.
Guarded(lot, min_notional, current_price, quantity) ==
    IF /\ Checked(min_notional, current_price)
       /\ Formatted(quantity, lot.stepSize).val * current_price < min_notional
    THEN FormatOut(FormatFixed(quantity, 8), "guard_failed", TRUE, lot,
                   min_notional, current_price, quantity)
    ELSE FormatOut(Formatted(quantity, lot.stepSize), "formatted", TRUE, lot,
                   min_notional, current_price, quantity)

\* Lines 73-137 for a symbol with a LOT_SIZE filter.
FormatWithRules(lot, min_notional, current_price, quantity) ==
    Guarded(lot, min_notional, current_price,
            Corrected(Snapped(Raised(quantity,
                                     EffectiveMinQty(lot.minQty, min_notional,
                                                     current_price)),
                              lot.stepSize),
                      current_price, min_notional, lot.stepSize))

\* The whole method, with what it went through: out is the string returned,
\* path the way it returned (lookup_failed: line 146 after _get_symbol_info
\* raised; no_lot_size: line 141; formatted: line 137; guard_failed: line 146
\* after the ValueError of line 135), priced whether get_symbol_ticker was
\* called, quantity the local variable when the method returned.
FormatTrace(lookup, ticker_price, quantity) ==
    IF ~lookup.ok
    THEN FormatOut(FormatFixed(quantity, 8), "lookup_failed", FALSE, NoFilter, 0, 0, quantity)
    ELSE IF lot_size_filter(lookup.info) = NoFilter
    THEN FormatOut(FormatFixed(quantity, 8), "no_lot_size", FALSE, NoFilter, 0, 0, quantity)
    ELSE FormatWithRules(lot_size_filter(lookup.info),
                         MinNotionalOf(notional_filter(lookup.info)),
                         CurrentPriceOf(ticker_price), quantity)

format_quantity(lookup, ticker_price, quantity) ==
    FormatTrace(lookup, ticker_price, quantity).out


(***************************************************************************)
(* Decisions and results                                                   *)
(***************************************************************************)
\* A value of the decisions dict.  mapping is FALSE for a JSON value that is
\* not an object (it has no .get); action is MissingKey when the key is
\* absent; qk tells whether "quantity" is a number (qv), absent, or a value
\* that does not compare with a number (a JSON string).
MissingKey == "<missing>"
NoneValue == "<None>"
Absent == "<absent>"

Decision(action, qk, qv, confidence) ==
    [mapping |-> TRUE, action |-> action, qk |-> qk, qv |-> qv,
     confidence |-> confidence]
NotAMapping == [mapping |-> FALSE, action |-> MissingKey, qk |-> "missing",
                qv |-> 0, confidence |-> 0]

\* An action that a low confidence turns into hold.
GetActionConfident(decision) ==
    IF decision.action = MissingKey \/ decision.confidence < 50
    THEN "hold" ELSE decision.action

\* decision.get("action", "hold"), decision.get("quantity", 0.0)
GetAction(decision) == IF decision.action = MissingKey THEN "hold" ELSE decision.action
GetQuantity(decision) ==
    IF decision.qk = "missing" THEN [k |-> "num", v |-> 0]
    ELSE [k |-> decision.qk, v |-> decision.qv]

\* The quantity field of a result: absent, None, a number, a value that is no
\* number, or a formatted string.
QAbsent == [k |-> "absent", val |-> 0, dp |-> 0]
QNone == [k |-> "none", val |-> 0, dp |-> 0]
QNum(v) == [k |-> "num", val |-> v, dp |-> 0]
QNonNum == [k |-> "nonnum", val |-> 0, dp |-> 0]
QFormatted(s) == [k |-> "str", val |-> s.val, dp |-> s.dp]

\* decision.get("action"), decision.get("quantity")
GetActionOrNone(decision) ==
    IF decision.action = MissingKey THEN NoneValue ELSE decision.action
GetQuantityOrNone(decision) ==
    IF decision.qk = "missing" THEN QNone
    ELSE IF decision.qk = "num" THEN QNum(decision.qv) ELSE QNonNum

Result(ticker, action, executed, quantity, reason, error, status) ==
    [present |-> TRUE, ticker |-> ticker, action |-> action, executed |-> executed,
     quantity |-> quantity, reason |-> reason, error |-> error, status |-> status]
NoResult ==
    [present |-> FALSE, ticker |-> Absent, action |-> Absent, executed |-> FALSE,
     quantity |-> QAbsent, reason |-> Absent, error |-> Absent, status |-> Absent]

NoActionReason == "No action required or invalid quantity"
SimulationReason == "Simulation mode - no actual orders placed"
UnknownActionReason(action) == "Unknown action: " \o action
InvalidQuantityError == "Invalid quantity: <formatted_quantity>"
NotAMappingError == "'str' object has no attribute 'get'"
NotComparableError == "'<=' not supported between instances of 'str' and 'int'"

(***************************************************************************)
(* OrderExecutor._execute_*_order                                          *)
(***************************************************************************)
\* What a method did: raised (with msg) or returned result; the exchange calls
\* it made, the cache entry it left, the responses it consumed, and the trace
\* of its normalisation.
Outcome(raised, msg, result, callsMade, entry, used, trace) ==
    [raised |-> raised, msg |-> msg, result |-> result, calls |-> callsMade,
     entry |-> entry, used |-> used, trace |-> trace]

NoTrace == FormatOut(NoQty, "none", FALSE, NoFilter, 0, 0, 0)

\* What the normalisation did: its trace, the cache entry left, the calls
\* made, and the responses consumed.
Normalised(ticker, lookup, trace, e) ==
    [trace |-> trace,
     entry |-> lookup.entry,
     calls |-> lookup.calls \o (IF trace.priced THEN <<GetSymbolTicker(ticker)>> ELSE << >>),
     meta |-> IF Len(lookup.calls) > 0 THEN e.meta ELSE MetaNotCalled,
     price |-> IF trace.priced THEN e.price ELSE PriceNotCalled]

FormatAfterLookup(ticker, quantity, lookup, e) ==
    Normalised(ticker, lookup, FormatTrace(lookup, e.price, quantity), e)

\* The normalisation every order method starts with: the lookup, then the
\* price call when a LOT_SIZE filter was found.
Normalise(ticker, quantity, entry, e) ==
    FormatAfterLookup(ticker, quantity, get_symbol_info(entry, e.meta), e)

\* An order call sent a second time when the exchange rejects it.
SubmitRetried(ticker, action, op, side, type, isIsolated, n, e) ==
    IF e.order.kind = "filled"
    THEN Outcome(FALSE, "", Result(ticker, action, TRUE, QFormatted(n.trace.out),
                                   Absent, Absent, "FILLED"),
                 n.calls \o <<Call(op, ticker, side, type, n.trace.out, isIsolated)>>,
                 n.entry, EnvOf(n.meta, n.price, e.order), n.trace)
    ELSE Outcome(TRUE, e.order.msg, NoResult,
                 n.calls \o <<Call(op, ticker, side, type, n.trace.out, isIsolated),
                              Call(op, ticker, side, type, n.trace.out, isIsolated)>>,
                 n.entry, EnvOf(n.meta, n.price, e.order), n.trace)

\* The order call, with the normalised string as quantity, and the return or
\* re-raise that follows it.
Submit(ticker, action, op, side, type, isIsolated, n, e) ==
    IF e.order.kind = "filled"
    THEN Outcome(FALSE, "", Result(ticker, action, TRUE, QFormatted(n.trace.out),
                                   Absent, Absent, "FILLED"),
                 n.calls \o <<Call(op, ticker, side, type, n.trace.out, isIsolated)>>,
                 n.entry, EnvOf(n.meta, n.price, e.order), n.trace)
    ELSE Outcome(TRUE, e.order.msg, NoResult,
                 n.calls \o <<Call(op, ticker, side, type, n.trace.out, isIsolated)>>,
                 n.entry, EnvOf(n.meta, n.price, e.order), n.trace)

\* Lines 210-237: the validation of the formatted quantity, then the order.
BuyNormalised(ticker, n, e) ==
    IF n.trace.out.val <= 0
    THEN Outcome(TRUE, InvalidQuantityError, NoResult, n.calls, n.entry,
                 EnvOf(n.meta, n.price, OrderNotCalled), n.trace)
    ELSE Submit(ticker, "buy", "order_market_buy", "", "", "", n, e)

execute_buy_order(ticker, quantity, entry, e) ==
    BuyNormalised(ticker, Normalise(ticker, quantity, entry, e), e)

execute_sell_order(ticker, quantity, entry, e) ==
    Submit(ticker, "sell", "order_market_sell", "", "", "",
           Normalise(ticker, quantity, entry, e), e)

\* A short sent as a margin BUY.
execute_short_order_as_buy(ticker, quantity, entry, e) ==
    Submit(ticker, "short", "create_margin_order", "BUY", "MARKET", "FALSE",
           Normalise(ticker, quantity, entry, e), e)

execute_short_order(ticker, quantity, entry, e) ==
    Submit(ticker, "short", "create_margin_order", "SELL", "MARKET", "FALSE",
           Normalise(ticker, quantity, entry, e), e)

execute_cover_order(ticker, quantity, entry, e) ==
    Submit(ticker, "cover", "create_margin_order", "BUY", "MARKET", "FALSE",
           Normalise(ticker, quantity, entry, e), e)

(***************************************************************************)
(* OrderExecutor.execute_decision                                          *)
(***************************************************************************)
Quiet(raised, msg, result, entry) ==
    Outcome(raised, msg, result, << >>, entry, NoEnv, NoTrace)

\* An unknown action recorded under "error".
UnknownActionAsError(ticker, action) ==
    Result(ticker, action, FALSE, QAbsent, Absent, UnknownActionReason(action), Absent)

\* The result of lines 184-189.
UnknownActionResult(ticker, action) ==
    Result(ticker, action, FALSE, QAbsent, UnknownActionReason(action), Absent, Absent)

\* The try block of lines 174-189.
RouteOrder(ticker, action, quantity, entry, e) ==
    IF action = "buy" THEN execute_buy_order(ticker, quantity, entry, e)
    ELSE IF action = "sell" THEN execute_sell_order(ticker, quantity, entry, e)
    ELSE IF action = "short" THEN execute_short_order(ticker, quantity, entry, e)
    ELSE IF action = "cover" THEN execute_cover_order(ticker, quantity, entry, e)
    ELSE Quiet(FALSE, "", UnknownActionResult(ticker, action), entry)

\* A quantity of 0 let through to the order methods.
NegativeQuantity(quantity) == quantity < 0

\* quantity <= 0, the second test of line 166.
InvalidQuantity(quantity) == quantity <= 0

\* No handler: what an order method raised leaves execute_decision.
Uncaught(ticker, action, o) == o

\* A handler that also explains the failure under "reason".
CaughtWithReason(ticker, action, o) ==
    IF o.raised
    THEN [o EXCEPT !.raised = FALSE, !.msg = "",
                   !.result = Result(ticker, action, FALSE, QAbsent, "Order failed",
                                     o.msg, Absent)]
    ELSE o

\* The except of lines 191-198: what an order method raised becomes the
\* error of the result.
Caught(ticker, action, o) ==
    IF o.raised
    THEN [o EXCEPT !.raised = FALSE, !.msg = "",
                   !.result = Result(ticker, action, FALSE, QAbsent, Absent,
                                     o.msg, Absent)]
    ELSE o

execute_decision(ticker, decision, entry, e) ==
    IF ~decision.mapping THEN Quiet(TRUE, NotAMappingError, NoResult, entry)
    ELSE IF GetAction(decision) = "hold"
    THEN Quiet(FALSE, "", Result(ticker, "hold", FALSE, QAbsent, NoActionReason,
                                 Absent, Absent), entry)
    ELSE IF GetQuantity(decision).k # "num"
    THEN Quiet(TRUE, NotComparableError, NoResult, entry)
    ELSE IF InvalidQuantity(GetQuantity(decision).v)
    THEN Quiet(FALSE, "", Result(ticker, "hold", FALSE, QAbsent, NoActionReason,
                                 Absent, Absent), entry)
    ELSE Caught(ticker, GetAction(decision),
                RouteOrder(ticker, GetAction(decision), GetQuantity(decision).v,
                           entry, e))


(***************************************************************************)
(* Bounds and input sets                                                   *)
(***************************************************************************)
MaxBatch == 2
MaxDispatches == 2

Tickers == {"BTCUSDT", "ETHUSDT"}

\* step 0.1, minimum 0.1, minimum notional 1.0
InfoTenth == SymbolInfo(<<LotSize(Nano \div 10, Nano \div 10), Notional(Nano)>>)
\* no step constraint, no minimum quantity, minimum notional 0.000002002
InfoNoStep == SymbolInfo(<<LotSize(0, 0), Filter("MIN_NOTIONAL", 0, 0, 2002)>>)
\* no LOT_SIZE filter
InfoNoLot == SymbolInfo(<<Filter("PRICE_FILTER", 0, 0, 0)>>)

\* step 1, no minimum quantity, no minimum notional
InfoWhole == SymbolInfo(<<LotSize(Nano, 0)>>)

Infos == {InfoTenth, InfoNoStep, InfoNoLot, InfoWhole}
MetaResponses == {MetaRaise, MetaAbsent} \cup {MetaListed(i) : i \in Infos}
\* The rules the exchange may list for each symbol.
InfosOf(t) == IF t = "BTCUSDT" THEN {InfoTenth, InfoNoStep} ELSE {InfoNoLot, InfoWhole}
PriceResponses == {PriceRaise, PriceOf(2)}
InsufficientBalance == "APIError(code=-2010): Account has insufficient balance for requested action."
\* str(e) of an exception raised with no message, such as TimeoutError()
NoMessage == ""
OrderResponses ==
    {OrderFilled, OrderRejected(InsufficientBalance), OrderRejected(NoMessage)}
Envs == {EnvOf(m, p, o) : m \in MetaResponses, p \in PriceResponses, o \in OrderResponses}
\* What the exchange may answer to the calls made for one symbol.
EnvsOf(t) == {e \in Envs : e.meta.kind = "listed" => e.meta.info \in InfosOf(t)}

ActionValues == {"hold", "buy", "sell", "short", "cover", "dance", MissingKey}
Fifth == 2 * (Nano \div 10)
\* Every action with quantity 0.2; some with quantity 0, with a negative, a
\* tiny (0.000001003), a missing and a non-numeric quantity; a buy with another
\* confidence; and a value that is no mapping.
Decisions ==
    {Decision(a, "num", Fifth, 75) : a \in ActionValues}
    \cup {Decision(a, "num", 0, 75) : a \in {"hold", "buy", "dance"}}
    \cup {Decision("buy", "num", Fifth, 10)}
    \cup {Decision("sell", "num", 1003, 75), Decision("cover", "num", 0 - Fifth, 75)}
    \cup {Decision(a, k, 0, 75) : a \in {"hold", "buy"}, k \in {"missing", "nonnum"}}
    \cup {NotAMapping}

HoldDecision == Decision("hold", "num", 0, 75)

\* The key orders of a decisions dict: sequences of distinct tickers.
Batches ==
    {b \in UNION {[1..n -> Tickers] : n \in 0..MaxBatch} :
        \A i \in 1..Len(b) : \A j \in 1..Len(b) : b[i] = b[j] => i = j}

InBatch(t) == \E i \in 1..Len(batch) : batch[i] = t

(***************************************************************************)
(* OrderExecutionNode                                                      *)
(***************************************************************************)
NoReport == [present |-> FALSE, message |-> Absent, mode |-> Absent,
             total_orders |-> 0, total_errors |-> 0]

\* The early returns of lines 41-45 and 54-59: a message and no summary.
NoDecisionsMessage == "No decisions to execute"
ParseFailedMessage == "Failed to parse trading decisions"
TopLevel(message) == [NoReport EXCEPT !.message = message]

\* execution_summary, lines 100-105: r.get("executed") and r.get("error") are
\* tested for truth, so an empty error string does not count.
Summary(enabled, res) ==
    [present |-> TRUE,
     message |-> Absent,
     mode |-> IF enabled THEN "live" ELSE "simulation",
     total_orders |-> Cardinality({t \in Tickers : res[t].present /\ res[t].executed}),
     total_errors |-> Cardinality({t \in Tickers :
                        res[t].present /\ res[t].error # Absent /\ res[t].error # ""})]

\* A node that keeps the flag it was given when the executor cannot be built.
NodeInitKeepingFlag(asked, credentials) ==
    [enable_execution |-> asked,
     order_executor |-> asked /\ credentials]

\* __init__: the executor is built only when execution is asked for, and
\* building it fails without credentials.
NodeInit(asked, credentials) ==
    [enable_execution |-> asked /\ credentials,
     order_executor |-> asked /\ credentials]

\* The threads that may share one executor, each outside _get_symbol_info.
Callers == {1, 2}
NoCaller == [at |-> "outside", symbol |-> Absent, exchange_info |-> MetaNotCalled,
             lookups |-> 0, raised |-> {}]

\* No _format_quantity call is being followed.
NoLoop == [at |-> "outside", quantity |-> 0, iterations |-> 0]

NoNormIn == [step_size |-> 0, min_qty |-> 0, min_notional |-> 0, price |-> 0,
             quantity |-> 0]

Init ==
    /\ requested \in BOOLEAN
    /\ \E credentials \in BOOLEAN :
          /\ enable_execution = NodeInit(requested, credentials).enable_execution
          /\ order_executor = NodeInit(requested, credentials).order_executor
    /\ cache = [t \in Tickers |-> NotCached]
    /\ pc = "idle"
    /\ content = "none"
    /\ batch = << >>
    /\ decisions = [t \in Tickers |-> HoldDecision]
    /\ idx = 1
    /\ results = [t \in Tickers |-> NoResult]
    /\ report = NoReport
    /\ calls = [t \in Tickers |-> << >>]
    /\ env = [t \in Tickers |-> NoEnv]
    /\ cache0 = cache
    /\ ndisp = 0
    /\ nin = NoNormIn
    /\ nout = NoTrace
    /\ callers = [c \in Callers |-> NoCaller]
    /\ loop = NoLoop

\* A loop that an error entry ends: the summary is built at once.
AdvanceUntilError(res) ==
    /\ idx' = idx + 1
    /\ IF idx + 1 > Len(batch) \/ res[batch[idx]].error # Absent
       THEN pc' = "done" /\ report' = Summary(enable_execution, res)
       ELSE pc' = pc /\ report' = report

\* The loop position moves on; after the last ticker the summary is built.
Advance(res) ==
    /\ idx' = idx + 1
    /\ IF idx + 1 > Len(batch)
       THEN pc' = "done" /\ report' = Summary(enable_execution, res)
       ELSE pc' = pc /\ report' = report

\* __call__ up to the loops: the decisions parsed from the last message.
StartDispatch ==
    /\ pc = "idle"
    /\ ndisp < MaxDispatches
    /\ \E b \in Batches :
       \E ds \in [{b[i] : i \in 1..Len(b)} -> Decisions] :
          /\ batch' = b
          /\ decisions' = [t \in Tickers |->
                             IF t \in DOMAIN ds THEN ds[t] ELSE HoldDecision]
          /\ IF Len(b) = 0
             THEN pc' = "done"
                  /\ report' = Summary(enable_execution, [t \in Tickers |-> NoResult])
             ELSE pc' = "running" /\ report' = NoReport
    /\ content' = "object"
    /\ ndisp' = ndisp + 1
    /\ UNCHANGED <<requested, enable_execution, order_executor, cache, idx, results, calls, env,
                   cache0, nin, nout, callers,
                   loop>>

\* __call__ on an input that holds no decisions dict: no message at all
\* (lines 41-45), a content that is not JSON (lines 54-59), or JSON that is not
\* an object (a list, a number, a string, null), whose .items() at line 66 or
\* 80 raises AttributeError outside every try.
Contents == {"no_messages", "invalid_json", "not_an_object"}
MalformedDispatch ==
    /\ pc = "idle"
    /\ ndisp < MaxDispatches
    /\ \E c \in Contents :
          /\ content' = c
          /\ IF c = "not_an_object"
             THEN pc' = "raised" /\ report' = NoReport
             ELSE /\ pc' = "failed"
                  /\ report' = TopLevel(IF c = "no_messages" THEN NoDecisionsMessage
                                                              ELSE ParseFailedMessage)
    /\ ndisp' = ndisp + 1
    /\ UNCHANGED <<requested, enable_execution, order_executor, cache, batch, decisions, idx,
                   results, calls, env, cache0, nin, nout, callers,
                   loop>>

\* A simulated order reported without its quantity.
SimulatedResultNoQuantity(action, quantity) ==
    Result(Absent, action, FALSE, QAbsent, SimulationReason, Absent, Absent)

\* The entry of lines 72-77.
SimulatedResult(action, quantity) ==
    Result(Absent, action, FALSE, QNum(quantity), SimulationReason, Absent, Absent)

\* The test of line 70: the decision is reported as a would-be order.
Simulated(action, quantity) == action # "hold" /\ quantity > 0

\* One iteration of the simulation loop, lines 66-77.
SimulateTicker ==
    /\ pc = "running"
    /\ ~enable_execution
    /\ LET ticker == batch[idx]
           decision == decisions[ticker]
           action == GetAction(decision)
           quantity == GetQuantity(decision)
       IN  IF ~decision.mapping \/ (action # "hold" /\ quantity.k # "num")
           THEN /\ pc' = "raised"
                /\ UNCHANGED <<idx, results, report>>
           ELSE IF Simulated(action, quantity.v)
           THEN /\ results' = [results EXCEPT ![ticker] =
                                  SimulatedResult(action, quantity.v)]
                /\ Advance(results')
           ELSE /\ results' = results
                /\ Advance(results')
    /\ UNCHANGED <<requested, enable_execution, order_executor, cache, content, batch, decisions,
                   calls, env, cache0, ndisp, nin, nout, callers,
                   loop>>

\* The body of the live loop for one ticker, lines 81-97: the result stored
\* for the ticker, or escaped when the except handler itself raises (its
\* decision.get on a value that is no mapping).
NoExecutorError == "'NoneType' object has no attribute 'execute_decision'"
Handled(decision, o) ==
    [escaped |-> o.raised /\ ~decision.mapping,
     result |-> IF ~o.raised THEN o.result
                ELSE IF ~decision.mapping THEN NoResult
                ELSE Result(Absent, GetActionOrNone(decision), FALSE,
                            GetQuantityOrNone(decision), Absent, o.msg, Absent),
     entry |-> o.entry, calls |-> o.calls, used |-> o.used]

NodeExecute(executor, ticker, decision, entry, e) ==
    Handled(decision, IF executor
                      THEN execute_decision(ticker, decision, entry, e)
                      ELSE Quiet(TRUE, NoExecutorError, NoResult, entry))

\* What one iteration of the live loop leaves behind.
Store(ticker, n) ==
    /\ cache' = [cache EXCEPT ![ticker] = n.entry]
    /\ calls' = [calls EXCEPT ![ticker] = n.calls]
    /\ env' = [env EXCEPT ![ticker] = n.used]
    /\ IF n.escaped
       THEN /\ pc' = "raised"
            /\ UNCHANGED <<idx, results, report>>
       ELSE /\ results' = [results EXCEPT ![ticker] = n.result]
            /\ Advance(results')

\* One iteration of the live loop, lines 80-97.
ExecuteTicker ==
    /\ pc = "running"
    /\ enable_execution
    /\ \E e \in EnvsOf(batch[idx]) :
          Store(batch[idx], NodeExecute(order_executor, batch[idx],
                                        decisions[batch[idx]], cache[batch[idx]], e))
    /\ UNCHANGED <<requested, enable_execution, order_executor, content, batch, decisions, cache0,
                   ndisp, nin, nout, callers,
                   loop>>

\* __call__ returns its message, or the exception leaves it: the locals of the
\* call are gone and the node can be called again.
Return ==
    /\ pc \in {"done", "failed", "raised"}
    /\ pc' = "idle"
    /\ content' = "none"
    /\ batch' = << >>
    /\ decisions' = [t \in Tickers |-> HoldDecision]
    /\ idx' = 1
    /\ results' = [t \in Tickers |-> NoResult]
    /\ report' = NoReport
    /\ calls' = [t \in Tickers |-> << >>]
    /\ env' = [t \in Tickers |-> NoEnv]
    /\ cache0' = cache
    /\ UNCHANGED <<requested, enable_execution, order_executor, cache, ndisp, nin, nout, callers,
                   loop>>

Next ==
    StartDispatch \/ MalformedDispatch \/ SimulateTicker \/ ExecuteTicker \/ Return

Spec == Init /\ [][Next]_vars


(***************************************************************************)
(* Direct calls of _format_quantity                                        *)
(***************************************************************************)
Tenth == Nano \div 10
StepSizes == {0, 1000, 12000, Nano \div 1000, Tenth, Nano \div 4, Nano \div 2, Nano,
              Nano + Nano \div 2}
MinQtys == {0, Tenth, 14 * (Nano \div 100), Nano \div 2}
MinNotionals == {0, 2002, Nano}
Prices == {0, 1, 2}
Quantities == {1003, Nano \div 100, Fifth, 3 * Tenth, Nano}

\* The combinations for which every product of a quantity and a price stays
\* within TLC's 32-bit integers, and the correction loop within a few steps.
\* step 0.001, minimum 0.01, quantity 0.0001, with minimum notional 0.0005 at
\* price 2: the ratio of 5.0 at price 20000, within 32-bit products.
SmallOrder == [step_size |-> Nano \div 1000, min_qty |-> Nano \div 100,
               min_notional |-> 500000, price |-> 2, quantity |-> 100000]

NormInputs ==
    {i \in [step_size : StepSizes, min_qty : MinQtys, min_notional : MinNotionals,
            price : Prices, quantity : Quantities] :
        /\ i.step_size < Nano \/ i.price < 2
        /\ i.min_notional < Nano \/ i.step_size = 0 \/ i.step_size >= Nano \div 1000}
    \cup {SmallOrder}

RulesOf(i) ==
    SymbolInfo(<<LotSize(i.step_size, i.min_qty)>>
               \o (IF i.min_notional > 0 THEN <<Notional(i.min_notional)>> ELSE << >>))

InitNorm ==
    /\ requested = FALSE
    /\ enable_execution = FALSE
    /\ order_executor = FALSE
    /\ cache = [t \in Tickers |-> NotCached]
    /\ pc = "idle"
    /\ content = "none"
    /\ batch = << >>
    /\ decisions = [t \in Tickers |-> HoldDecision]
    /\ idx = 1
    /\ results = [t \in Tickers |-> NoResult]
    /\ report = NoReport
    /\ calls = [t \in Tickers |-> << >>]
    /\ env = [t \in Tickers |-> NoEnv]
    /\ cache0 = cache
    /\ ndisp = 0
    /\ nin \in NormInputs
    /\ nout = NoTrace
    /\ callers = [c \in Callers |-> NoCaller]
    /\ loop = NoLoop

\* _format_quantity on a symbol whose rules are found; price 0 is a failed
\* get_symbol_ticker.
FormatCall ==
    /\ nout = NoTrace
    /\ nout' = FormatTrace([ok |-> TRUE, info |-> RulesOf(nin)],
                           IF nin.price > 0 THEN PriceOf(nin.price) ELSE PriceRaise,
                           nin.quantity)
    /\ UNCHANGED <<dispatchVars, nin, callers, loop>>

NextNorm == FormatCall

SpecNorm == InitNorm /\ [][NextNorm]_vars


(***************************************************************************)
(* Concurrent calls of _get_symbol_info on one executor                    *)
(***************************************************************************)
\* Calls each thread makes.
MaxLookups == 2

MetaResponsesOf(t) == {MetaRaise, MetaAbsent} \cup {MetaListed(i) : i \in InfosOf(t)}

InitLookup ==
    /\ requested = TRUE
    /\ enable_execution = TRUE
    /\ order_executor = TRUE
    /\ cache = [t \in Tickers |-> NotCached]
    /\ pc = "idle"
    /\ content = "none"
    /\ batch = << >>
    /\ decisions = [t \in Tickers |-> HoldDecision]
    /\ idx = 1
    /\ results = [t \in Tickers |-> NoResult]
    /\ report = NoReport
    /\ calls = [t \in Tickers |-> << >>]
    /\ env = [t \in Tickers |-> NoEnv]
    /\ cache0 = cache
    /\ ndisp = 0
    /\ nin = NoNormIn
    /\ nout = NoTrace
    /\ callers = [c \in Callers |-> NoCaller]
    /\ loop = NoLoop

lookupFrame == <<requested, enable_execution, order_executor, pc, content, batch,
                 decisions, idx, results, report, env, cache0, ndisp, nin, nout, loop>>

\* The method is left by return, or by raise (raised: the symbols for which it
\* raised to this thread).
Left(caller) == [caller EXCEPT !.at = "outside", !.lookups = @ + 1]
LeftRaising(caller) == [Left(caller) EXCEPT !.raised = @ \cup {caller.symbol}]

\* A thread calls the method and tests the cache, line 40.
TestCache ==
    /\ \E c \in Callers : \E t \in Tickers :
          /\ callers[c].at = "outside"
          /\ callers[c].lookups < MaxLookups
          /\ callers' = [callers EXCEPT ![c] =
                            [@ EXCEPT !.symbol = t, !.exchange_info = MetaNotCalled,
                                      !.at = IF cache[t].cached THEN "line53"
                                                                ELSE "line42"]]
    /\ UNCHANGED <<cache, calls, lookupFrame>>

\* get_exchange_info is called, line 42; when it raises, the except of lines
\* 49-51 re-raises.
FetchInfo ==
    /\ \E c \in Callers : \E m \in MetaResponsesOf(callers[c].symbol) :
          /\ callers[c].at = "line42"
          /\ calls' = [calls EXCEPT ![callers[c].symbol] = Append(@, GetExchangeInfo)]
          /\ callers' = [callers EXCEPT ![c] =
                            IF m.kind = "raise" THEN LeftRaising(@)
                            ELSE [@ EXCEPT !.exchange_info = m, !.at = "line43"]]
    /\ UNCHANGED <<cache, lookupFrame>>

\* A scan that remembers a symbol the exchange does not list, as an entry
\* without rules.
StoreInfoOrNone ==
    /\ \E c \in Callers :
          /\ callers[c].at = "line43"
          /\ IF callers[c].exchange_info.kind = "listed"
             THEN /\ cache' = [cache EXCEPT ![callers[c].symbol] =
                                  Cached(callers[c].exchange_info.info)]
                  /\ callers' = [callers EXCEPT ![c] = [@ EXCEPT !.at = "line53"]]
             ELSE /\ cache' = [cache EXCEPT ![callers[c].symbol] = Cached(NoInfo)]
                  /\ callers' = [callers EXCEPT ![c] = LeftRaising(@)]
    /\ UNCHANGED <<calls, lookupFrame>>

\* The scan of lines 43-48: the symbol's entry is stored, or ValueError is
\* raised and re-raised.
StoreInfo ==
    /\ \E c \in Callers :
          /\ callers[c].at = "line43"
          /\ IF callers[c].exchange_info.kind = "listed"
             THEN /\ cache' = [cache EXCEPT ![callers[c].symbol] =
                                  Cached(callers[c].exchange_info.info)]
                  /\ callers' = [callers EXCEPT ![c] = [@ EXCEPT !.at = "line53"]]
             ELSE /\ cache' = cache
                  /\ callers' = [callers EXCEPT ![c] = LeftRaising(@)]
    /\ UNCHANGED <<calls, lookupFrame>>

\* The return of line 53.
ReturnInfo ==
    /\ \E c \in Callers :
          /\ callers[c].at = "line53"
          /\ callers' = [callers EXCEPT ![c] = Left(@)]
    /\ UNCHANGED <<cache, calls, lookupFrame>>

NextLookup == TestCache \/ FetchInfo \/ StoreInfo \/ ReturnInfo

SpecLookup == InitLookup /\ [][NextLookup]_vars


(***************************************************************************)
(* _format_quantity followed through its correction loop                   *)
(***************************************************************************)
\* step 0.00000005, minimum notional 1.0, price 1: the margin of 0.001 is
\* twenty thousand steps away from the snapped quantity.
SmallStep == [step_size |-> 50, min_qty |-> 0, min_notional |-> Nano, price |-> 1,
              quantity |-> Fifth]
LoopInputs == NormInputs \cup {SmallStep}

InitLoop ==
    /\ requested = FALSE
    /\ enable_execution = FALSE
    /\ order_executor = FALSE
    /\ cache = [t \in Tickers |-> NotCached]
    /\ pc = "idle"
    /\ content = "none"
    /\ batch = << >>
    /\ decisions = [t \in Tickers |-> HoldDecision]
    /\ idx = 1
    /\ results = [t \in Tickers |-> NoResult]
    /\ report = NoReport
    /\ calls = [t \in Tickers |-> << >>]
    /\ env = [t \in Tickers |-> NoEnv]
    /\ cache0 = cache
    /\ ndisp = 0
    /\ nin \in LoopInputs
    /\ nout = NoTrace
    /\ callers = [c \in Callers |-> NoCaller]
    /\ loop = NoLoop

\* Lines 57-107: the rules are read, the quantity is raised to the effective
\* minimum and snapped to the step.
BeginFormat ==
    /\ loop.at = "outside"
    /\ nout = NoTrace
    /\ loop' = [at |-> "line110",
                quantity |-> Snapped(Raised(nin.quantity,
                                            EffectiveMinQty(nin.min_qty, nin.min_notional,
                                                            nin.price)),
                                     nin.step_size),
                iterations |-> 0]
    /\ UNCHANGED <<dispatchVars, nin, nout, callers>>

\* The test of lines 110-111.
LoopTest(quantity) ==
    /\ Checked(nin.min_notional, nin.price)
    /\ BelowMargin(quantity * nin.price, nin.min_notional)

\* One pass of the loop body, line 112.
Iterate ==
    /\ loop.at = "line110"
    /\ LoopTest(loop.quantity)
    /\ loop' = [loop EXCEPT
                   !.quantity = @ + (IF nin.step_size > 0 THEN nin.step_size
                                                         ELSE Nano \div 10),
                   !.iterations = @ + 1]
    /\ UNCHANGED <<dispatchVars, nin, nout, callers>>

\* Lines 115-137: the loop is over, the quantity is formatted, checked by the
\* final guard and returned.
FinishFormat ==
    /\ loop.at = "line110"
    /\ ~LoopTest(loop.quantity)
    /\ loop' = [loop EXCEPT !.at = "returned"]
    /\ nout' = Guarded(LotSize(nin.step_size, nin.min_qty), nin.min_notional,
                       nin.price, loop.quantity)
    /\ UNCHANGED <<dispatchVars, nin, callers>>

NextLoop == BeginFormat \/ Iterate \/ FinishFormat

SpecLoop == InitLoop /\ [][NextLoop]_vars


(***************************************************************************)
(* Properties                                                              *)
(***************************************************************************)
\* The loop has gone through ticker t in this dispatch.
Processed(t) == \E i \in 1..Len(batch) : batch[i] = t /\ i < idx

TradeActions == {"buy", "sell", "short", "cover"}
KnownActions == TradeActions \cup {"hold"}

PositiveQuantity(d) == d.mapping /\ d.qk = "num" /\ d.qv > 0
Tradeable(d) == PositiveQuantity(d) /\ d.action \in TradeActions

\* The normalisation of t's quantity in this dispatch, recomputed from the
\* cache entry it started with and the responses it consumed.
NormOf(t) == Normalise(t, decisions[t].qv, cache0[t], env[t]).trace

IsOrderCall(c) == c.op \in OrderOps
OrderCalls(t) == SelectSeq(calls[t], IsOrderCall)

HasError(r) == r.present /\ r.error # Absent

\* C1: in both modes the results map of the report built by dispatch has one
\* entry for every input ticker and no other, hold and quantity <= 0 included.
C1_ResultsCoverEveryTicker ==
    pc = "done" => \A t \in Tickers : results[t].present <=> InBatch(t)

\* C2: in live mode, when the exchange rejects the order of one ticker of a
\* batch of well-formed decisions, the dispatch does not stop: every ticker
\* gone through has an entry, the finished report has exactly one entry per
\* ticker of the batch, and the executed flag of every ticker equals the one
\* it gets when dispatched alone against the same cache entry and responses.
WellFormedBatch == \A t \in Tickers : InBatch(t) => decisions[t].mapping
RejectedSome == \E k \in Tickers : Processed(k) /\ env[k].order.kind = "rejected"
AloneExecuted(t) ==
    NodeExecute(order_executor, t, decisions[t], cache0[t], env[t]).result.executed
C2_BatchIsolation ==
    (enable_execution /\ WellFormedBatch /\ RejectedSome) =>
        /\ pc # "raised"
        /\ pc = "done" => \A t \in Tickers : results[t].present <=> InBatch(t)
        /\ \A t \in Tickers : Processed(t) =>
              /\ results[t].present
              /\ results[t].executed = AloneExecuted(t)

\* A finished two-ticker live dispatch whose first order was rejected and
\* whose second was executed.
C2_Witness ==
    /\ enable_execution /\ pc = "done" /\ Len(batch) = 2
    /\ env[batch[1]].order.kind = "rejected"
    /\ HasError(results[batch[1]])
    /\ results[batch[2]].executed

\* C3: no failure on one ticker leaves dispatch as an exception, in either
\* mode: a dispatch of a decisions dict never ends raised.
C3_NothingEscapes == content = "object" => pc # "raised"

\* C4: when the final guard of normalisation finds the order value below the
\* minimum notional, no order is submitted for the ticker and its result is
\* executed=false with an error.
GuardFailed(t) ==
    /\ enable_execution /\ Processed(t) /\ Tradeable(decisions[t])
    /\ NormOf(t).path = "guard_failed"
C4_GuardFailureNotSubmitted ==
    \A t \in Tickers : GuardFailed(t) =>
        /\ OrderCalls(t) = << >>
        /\ ~results[t].executed
        /\ HasError(results[t])

\* C5: every order submitted for a ticker whose rules have minNotional > 0 and
\* whose price is > 0 carries a quantity worth at least minNotional.
C5_SubmittedMeetsNotional ==
    \A t \in Tickers :
        (enable_execution /\ Processed(t) /\ Tradeable(decisions[t])) =>
            \A i \in 1..Len(OrderCalls(t)) :
                (NormOf(t).min_notional > 0 /\ NormOf(t).current_price > 0) =>
                    OrderCalls(t)[i].quantity.val * NormOf(t).current_price
                        >= NormOf(t).min_notional

\* C6: whenever minQty > 0 the quantity returned by normalisation is at least
\* minQty, for every raw quantity > 0 and every stepSize.
C6_AtLeastMinQty ==
    (nout # NoTrace /\ nin.min_qty > 0) => nout.out.val >= nin.min_qty

\* C7: for every stepSize > 0 the quantity returned by normalisation is an
\* integer multiple of stepSize.
C7_OnStepLattice ==
    (nout # NoTrace /\ nin.step_size > 0) => nout.out.val % nin.step_size = 0

\* C8: in live mode a decision with quantity > 0 and action buy, sell, short
\* or cover makes exactly one order-submission call, the one of its action,
\* with the normalised string as quantity, which is also the quantity of the
\* result of an executed order.
ExpectedCall(ticker, action, quantity) ==
    IF action = "buy" THEN Call("order_market_buy", ticker, "", "", quantity, "")
    ELSE IF action = "sell" THEN Call("order_market_sell", ticker, "", "", quantity, "")
    ELSE IF action = "short"
    THEN Call("create_margin_order", ticker, "SELL", "MARKET", quantity, "FALSE")
    ELSE Call("create_margin_order", ticker, "BUY", "MARKET", quantity, "FALSE")
RoutedOnce(t) ==
    /\ OrderCalls(t) = <<ExpectedCall(t, decisions[t].action, NormOf(t).out)>>
    /\ results[t].executed => results[t].quantity = QFormatted(NormOf(t).out)
LiveTrade(t) == enable_execution /\ Processed(t) /\ Tradeable(decisions[t])
C8_ExactlyOneOrderCall ==
    \A t \in Tickers : LiveTrade(t) => RoutedOnce(t)

\* C8 as amended: the same, except that a buy whose normalised quantity is
\* numerically <= 0 makes no order call and is recorded as executed=false with
\* the error "Invalid quantity: <normalised quantity>".
BlockedBuy(t) == decisions[t].action = "buy" /\ NormOf(t).out.val <= 0
C8_OneOrderCallUnlessBlockedBuy ==
    \A t \in Tickers : LiveTrade(t) =>
        IF BlockedBuy(t)
        THEN /\ OrderCalls(t) = << >>
             /\ ~results[t].executed
             /\ results[t].error = InvalidQuantityError
        ELSE RoutedOnce(t)

\* A live short that was submitted on cross margin and executed, and a buy
\* that was blocked, in one dispatch.
C8_Witness ==
    \E t \in Tickers, u \in Tickers :
        /\ LiveTrade(t) /\ decisions[t].action = "short" /\ results[t].executed
        /\ Len(OrderCalls(t)) = 1 /\ OrderCalls(t)[1].side = "SELL"
        /\ LiveTrade(u) /\ BlockedBuy(u) /\ HasError(results[u])

\* C9: in live mode a decision whose action is hold or missing, or whose
\* quantity is <= 0, yields executed=false with the reason "No action required
\* or invalid quantity"; no exchange call is made for the ticker and the
\* symbol cache is left as it was.
Skippable(d) ==
    /\ d.mapping
    /\ \/ d.action \in {"hold", MissingKey}
       \/ d.qk = "missing"
       \/ d.qk = "num" /\ d.qv <= 0
C9_HoldMakesNoCall ==
    [][\A t \in Tickers :
          (/\ pc = "running" /\ enable_execution
           /\ batch[idx] = t /\ Skippable(decisions[t])) =>
              /\ results'[t].present
              /\ ~results'[t].executed
              /\ results'[t].reason = NoActionReason
              /\ results'[t].error = Absent
              /\ calls'[t] = << >>
              /\ cache' = cache]_vars

\* A live dispatch that went through a buy of quantity 0 on an uncached symbol.
C9_Witness ==
    \E t \in Tickers :
        /\ enable_execution /\ Processed(t)
        /\ decisions[t].action = "buy" /\ decisions[t].qk = "num" /\ decisions[t].qv = 0
        /\ ~cache[t].cached
        /\ results[t].reason = NoActionReason

\* C10: a decision with quantity > 0 whose action is none of hold, buy, sell,
\* short, cover yields executed=false with the reason "Unknown action:
\* <action>", no error (so total_errors does not count it), and no exchange
\* call for the ticker.
UnknownAction(d) ==
    PositiveQuantity(d) /\ d.action \notin KnownActions \cup {MissingKey}
ErrorsOfOthers(t) ==
    Cardinality({u \in Tickers \ {t} : HasError(results[u]) /\ results[u].error # ""})
NotAnOrderNorError(t) ==
    /\ results[t].present
    /\ ~results[t].executed
    /\ results[t].error = Absent
    /\ calls[t] = << >>
    /\ pc = "done" => report.total_errors = ErrorsOfOthers(t)
NonHold(d) == PositiveQuantity(d) /\ d.action \notin {"hold", MissingKey}
C11_SimulationMakesNoCall ==
    ~enable_execution =>
        /\ \A t \in Tickers :
              calls[t] = << >> /\ env[t] = NoEnv /\ cache[t] = NotCached
        /\ \A t \in Tickers : (Processed(t) /\ NonHold(decisions[t])) =>
              /\ results[t].present /\ ~results[t].executed
              /\ results[t].reason = SimulationReason
              /\ results[t].error = Absent
              /\ results[t].action = decisions[t].action
              /\ results[t].quantity = QNum(decisions[t].qv)

\* The second simulated dispatch of a node has reported a short of 0.2.
C11_Witness ==
    /\ ~enable_execution /\ ndisp = 2 /\ pc = "done"
    /\ \E t \in Tickers :
          /\ Processed(t) /\ decisions[t].action = "short" /\ decisions[t].qv = Fifth
          /\ results[t].reason = SimulationReason
          /\ results[t].quantity = QNum(Fifth)

\* C12: for a fixed batch the routing is the same in both modes: the tickers
\* that simulation reports as would-be orders are exactly the tickers that
\* live mode routes to an order submission, under the same action.  In a live
\* state the ticker's order calls are set against the simulation's test on the
\* same decision; in a simulated state the ticker's entry is set against the
\* live routing of the same decision under every exchange response.
Comparable(d) == d.mapping /\ d.qk \in {"num", "missing"}
LiveOrderCalls(t, e) ==
    SelectSeq(NodeExecute(TRUE, t, decisions[t], NotCached, e).calls, IsOrderCall)
SameRoute(d, orders) ==
    IF Simulated(GetAction(d), GetQuantity(d).v)
    THEN Len(orders) = 1 /\ orders[1].op = ExpectedCall("", d.action, NoQty).op
                         /\ orders[1].side = ExpectedCall("", d.action, NoQty).side
    ELSE orders = << >>
C12_RoutingParity ==
    \A t \in Tickers : (Processed(t) /\ Comparable(decisions[t])) =>
        IF enable_execution
        THEN SameRoute(decisions[t], OrderCalls(t))
        ELSE /\ results[t].present <=>
                    Simulated(GetAction(decisions[t]), GetQuantity(decisions[t]).v)
             /\ \A e \in EnvsOf(t) : SameRoute(decisions[t], LiveOrderCalls(t, e))

\* C13: in every result entry, of both modes and of every path, executed=false
\* comes with exactly one of reason and error, and executed=true with neither.
HasReason(r) == r.reason # Absent
HasErrorKey(r) == r.error # Absent
C13_ReasonXorError ==
    \A t \in Tickers : results[t].present =>
        IF results[t].executed
        THEN ~HasReason(results[t]) /\ ~HasErrorKey(results[t])
        ELSE HasReason(results[t]) # HasErrorKey(results[t])

\* A finished live dispatch with an executed order beside a rejected one.
C13_Witness ==
    /\ enable_execution /\ pc = "done" /\ Len(batch) = 2
    /\ results[batch[1]].executed /\ results[batch[1]].status = "FILLED"
    /\ ~results[batch[2]].executed /\ HasErrorKey(results[batch[2]])
    /\ env[batch[2]].order.kind = "rejected"

\* C14: in every report total_orders is the number of entries with
\* executed=true, total_errors the number of entries that have an error set,
\* whatever its message, and mode is "live" exactly when execution is enabled.
C14_SummaryCounts ==
    pc = "done" =>
        /\ report.present
        /\ report.total_orders =
              Cardinality({t \in Tickers : results[t].present /\ results[t].executed})
        /\ report.total_errors =
              Cardinality({t \in Tickers : results[t].present /\ HasErrorKey(results[t])})
        /\ report.mode = IF enable_execution THEN "live" ELSE "simulation"

\* C15: in live mode, when the exchange raises on the order submission of a
\* buy, sell, short or cover, execute_decision does not raise: it returns the
\* ticker's result with executed=false and the exception's message as error.
SubmissionRejected(t) ==
    LiveTrade(t) /\ OrderCalls(t) # << >> /\ env[t].order.kind = "rejected"
C15_RejectionBecomesError ==
    \A t \in Tickers : SubmissionRejected(t) =>
        /\ ~execute_decision(t, decisions[t], cache0[t], env[t]).raised
        /\ results[t] = execute_decision(t, decisions[t], cache0[t], env[t]).result
        /\ results[t].present /\ ~results[t].executed
        /\ results[t].ticker = t /\ results[t].action = decisions[t].action
        /\ results[t].error = env[t].order.msg
        /\ results[t].reason = Absent

\* A finished dispatch whose two orders, one spot and one margin, were both
\* rejected for insufficient balance.
C15_Witness ==
    /\ pc = "done" /\ Len(batch) = 2
    /\ \A t \in Tickers : SubmissionRejected(t) /\ results[t].error = InsufficientBalance
    /\ decisions[batch[1]].action \in {"buy", "sell"}
    /\ decisions[batch[2]].action \in {"short", "cover"}

\* C16: normalisation never raises to its caller; when the symbol's rules
\* cannot be obtained (metadata call fails, symbol absent, no LOT_SIZE filter)
\* or the current price cannot be obtained, it returns the raw quantity with
\* exactly 8 decimal places, and the order is submitted with that string.
RulesMissing(t) == NormOf(t).path \in {"lookup_failed", "no_lot_size"}
PriceMissing(t) == NormOf(t).priced /\ env[t].price.kind = "raise"
SubmittedWith(t, quantity) ==
    /\ Len(OrderCalls(t)) = 1
    /\ OrderCalls(t)[1].quantity = quantity
EightDecimals(t) ==
    /\ NormOf(t).out = FormatFixed(decisions[t].qv, 8)
    /\ NormOf(t).out.dp = 8
C16_FallbackOnMissingRulesOrPrice ==
    \A t \in Tickers : (LiveTrade(t) /\ (RulesMissing(t) \/ PriceMissing(t))) =>
        /\ EightDecimals(t)
        /\ SubmittedWith(t, NormOf(t).out)

\* C16 as amended: the 8-decimal string of the raw quantity is returned when
\* the rules cannot be obtained.  When only the price cannot be obtained the
\* notional checks are skipped and the quantity is raised to minQty, snapped
\* to stepSize and formatted to the step's precision as usual.  In both cases
\* no error comes from normalisation, and the order is submitted with the
\* returned string, unless it is a buy whose string is numerically <= 0.
StepFormatted(t) ==
    /\ NormOf(t).path = "formatted"
    /\ NormOf(t).out =
          Formatted(Snapped(Raised(decisions[t].qv, NormOf(t).min_qty),
                            NormOf(t).step_size),
                    NormOf(t).step_size)
SubmittedUnlessBlocked(t) ==
    /\ results[t].error \in {Absent, env[t].order.msg, InvalidQuantityError}
    /\ IF BlockedBuy(t) THEN OrderCalls(t) = << >>
                        ELSE SubmittedWith(t, NormOf(t).out)
C16_FallbackOnMissingRules ==
    \A t \in Tickers : LiveTrade(t) =>
        /\ RulesMissing(t) => EightDecimals(t) /\ SubmittedUnlessBlocked(t)
        /\ PriceMissing(t) => StepFormatted(t) /\ SubmittedUnlessBlocked(t)

\* A dispatch that went through one order whose metadata call failed and one
\* whose rules were found, with a minimum notional, but whose price call failed.
C16_Witness ==
    \E t \in Tickers, u \in Tickers :
        /\ LiveTrade(t) /\ NormOf(t).path = "lookup_failed"
        /\ env[t].meta.kind = "raise" /\ SubmittedWith(t, FormatFixed(Fifth, 8))
        /\ LiveTrade(u) /\ PriceMissing(u) /\ NormOf(u).min_notional > 0
        /\ NormOf(u).step_size > 0 /\ SubmittedWith(u, NormOf(u).out)

\* C17: when the decisions input is malformed (content that is not JSON, or
\* JSON that is not a ticker -> decision mapping), dispatch reports a single
\* top-level failure: it does not raise, makes no exchange call and records
\* no per-ticker result.
Malformed == content \in {"invalid_json", "not_an_object"}
C17_MalformedInputReported ==
    Malformed =>
        /\ pc = "failed"
        /\ report = TopLevel(ParseFailedMessage)
        /\ \A t \in Tickers : ~results[t].present /\ calls[t] = << >>
        /\ cache = cache0

\* C18: confidence has no influence on dispatch, in either mode.  The entry
\* and the exchange calls of a ticker are those of its decision under any
\* other confidence; and two tickers of one batch whose decisions differ at
\* most in confidence, starting from the same cache entry and getting the
\* same exchange responses, end with the same entry and the same calls, up to
\* the ticker's name.
Confidences == {10, 75}
WithConfidence(d, c) == [d EXCEPT !.confidence = c]
SimulatedEntry(d) ==
    IF Simulated(GetAction(d), GetQuantity(d).v)
    THEN SimulatedResult(GetAction(d), GetQuantity(d).v)
    ELSE NoResult
ResultAndCalls(n) == [result |-> n.result, calls |-> n.calls]
EntryAndCalls(t, d) ==
    IF enable_execution
    THEN ResultAndCalls(NodeExecute(order_executor, t, d, cache0[t], env[t]))
    ELSE [result |-> SimulatedEntry(d), calls |-> << >>]
Unnamed(r) == [r EXCEPT !.ticker = Absent]
UnnamedCall(c) == [c EXCEPT !.symbol = ""]
UnnamedCalls(t) == [i \in 1..Len(calls[t]) |-> UnnamedCall(calls[t][i])]
SameButConfidence(d, f) == d.mapping /\ f.mapping /\ WithConfidence(d, 0) = WithConfidence(f, 0)
C18_ConfidenceIgnored ==
    /\ \A t \in Tickers : (Processed(t) /\ decisions[t].mapping) =>
          \A c \in Confidences :
              EntryAndCalls(t, WithConfidence(decisions[t], c)) =
                  [result |-> results[t], calls |-> calls[t]]
    /\ \A t \in Tickers, u \in Tickers :
          (/\ Processed(t) /\ Processed(u)
           /\ SameButConfidence(decisions[t], decisions[u])
           /\ cache0[t] = cache0[u] /\ env[t] = env[u]) =>
              /\ Unnamed(results[t]) = Unnamed(results[u])
              /\ UnnamedCalls(t) = UnnamedCalls(u)

\* Two buys of 0.2 in one live batch, one with confidence 75 and one with
\* confidence 10, given the same responses and both executed.
C18_Witness ==
    \E t \in Tickers, u \in Tickers :
        /\ enable_execution /\ Processed(t) /\ Processed(u)
        /\ decisions[t].confidence = 75 /\ decisions[u].confidence = 10
        /\ SameButConfidence(decisions[t], decisions[u])
        /\ cache0[t] = cache0[u] /\ env[t] = env[u]
        /\ results[t].executed /\ results[u].executed

\* C19: per ticker and per dispatch the path is linear and terminal.  The
\* exchange calls made for a ticker are, in this order and each at most once,
\* the metadata lookup, the price lookup and one order submission, so that
\* normalisation is over before the order is sent and a rejected submission
\* is not sent again; a skipped ticker makes none.  Once a ticker has its
\* entry, the entry and the calls stay as they are for the rest of the
\* dispatch, and the loop never goes back to an earlier ticker.
Rank(c) == IF c.op = "get_exchange_info" THEN 1
           ELSE IF c.op = "get_symbol_ticker" THEN 2 ELSE 3
Linear(cs) == \A i \in 1..Len(cs) : \A j \in 1..Len(cs) :
                  i < j => Rank(cs[i]) < Rank(cs[j])
SkippedHasNoCall(r, cs) == r.reason = NoActionReason => cs = << >>
C19_LinearPath ==
    [][\A t \in Tickers :
          /\ Linear(calls'[t])
          /\ SkippedHasNoCall(results'[t], calls'[t])
          /\ (pc # "idle" /\ pc' # "idle") =>
                /\ idx' >= idx
                /\ Processed(t) => results'[t] = results[t] /\ calls'[t] = calls[t]]_vars

\* A finished dispatch in which a ticker's metadata lookup, price lookup and
\* one rejected order submission were made, in that order, before the next
\* ticker's order was executed.
C19_Witness ==
    /\ pc = "done" /\ Len(batch) = 2
    /\ Len(calls[batch[1]]) = 3 /\ IsOrderCall(calls[batch[1]][3])
    /\ env[batch[1]].order.kind = "rejected" /\ HasErrorKey(results[batch[1]])
    /\ results[batch[2]].executed

\* C20: across the dispatches of one executor, once a ticker's rules are in
\* the cache the entry is never removed or replaced, no metadata is requested
\* for that ticker again, and the ticker's result is the one the cached rules
\* give whatever the exchange would now answer to a metadata request.
LiveStepOn(t) == pc = "running" /\ enable_execution /\ batch[idx] = t
WithMeta(e, m) == EnvOf(m, e.price, e.order)
C20_CachedRulesKept ==
    [][\A t \in Tickers : cache[t].cached =>
          /\ cache'[t] = cache[t]
          /\ LiveStepOn(t) =>
                /\ \A i \in 1..Len(calls'[t]) : calls'[t][i] # GetExchangeInfo
                /\ env'[t].meta = MetaNotCalled
                /\ \A m \in MetaResponses :
                      results'[t] = NodeExecute(order_executor, t, decisions[t], cache[t],
                                                WithMeta(env'[t], m)).result]_vars

\* In the second dispatch of an executor an order was executed for a ticker
\* whose rules, with a step of 0.1, were cached by the first: its price was
\* looked up and its metadata was not.
C20_Witness ==
    \E t \in Tickers :
        /\ enable_execution /\ ndisp = 2 /\ Processed(t)
        /\ cache0[t] = Cached(InfoTenth) /\ cache[t] = cache0[t]
        /\ results[t].executed
        /\ Len(calls[t]) = 2 /\ calls[t][1] = GetSymbolTicker(t)

\* C21: two callers looking up the same uncached ticker on one executor are
\* serialised: at no time have both issued the metadata call for it without
\* either having stored the answer.
Fetched(c) == callers[c].at = "line43"
C21_SingleFlight ==
    \A c \in Callers : \A d \in Callers :
        (c # d /\ Fetched(c) /\ Fetched(d)) => callers[c].symbol # callers[d].symbol

\* C22: the notional-correction loop makes at most a fixed number of passes,
\* ten thousand, before normalisation gives up.
C22_LoopCapped == loop.iterations <= 10000

\* C23: every dispatch of a decisions dict ends with each input ticker
\* resolved to a terminal outcome: Executed, Rejected (an error) or Skipped (a
\* reason).
Terminal(r) ==
    /\ r.present
    /\ r.executed \/ HasErrorKey(r) \/ HasReason(r)
C23_EveryTickerResolved ==
    (content = "object" /\ pc \in {"done", "raised"}) =>
        /\ pc = "done"
        /\ \A t \in Tickers : InBatch(t) => Terminal(results[t])

\* C24: the effective minimum is max(minQty, minNotional / price) when there
\* is a minimum notional and a price, and minQty otherwise; a raw quantity
\* below it is raised to exactly it, any other is left alone, and the value
\* snapped and corrected afterwards is that of this quantity.  With step
\* 0.001, minimum 0.01 and a notional minimum worth 0.00025, a raw 0.0001
\* gives "0.01".
Returned == nout # NoTrace
SpecEffectiveMin ==
    IF nin.min_notional > 0 /\ nin.price > 0
    THEN Max(nin.min_qty, nin.min_notional \div nin.price)
    ELSE nin.min_qty
SpecRaised == IF nin.quantity < SpecEffectiveMin THEN SpecEffectiveMin ELSE nin.quantity
C24_RaisedToEffectiveMin ==
    Returned =>
        /\ nout.quantity = Corrected(Snapped(SpecRaised, nin.step_size), nin.price,
                                     nin.min_notional, nin.step_size)
        /\ nin = SmallOrder => nout.out = QStr(Nano \div 100, 2)

\* A call returned whose raw quantity was below an effective minimum set by
\* the notional requirement, not by minQty.
C24_Witness ==
    /\ Returned
    /\ nin.quantity < SpecEffectiveMin
    /\ SpecEffectiveMin > nin.min_qty
    /\ nout.path = "formatted"

\* C25: with a LOT_SIZE step of 0 the quantity is not snapped and is formatted
\* to 8 decimal places: the string returned is worth the quantity rounded to
\* 8 decimals, not its whole part.
C25_NoStepEightDecimals ==
    (Returned /\ nin.step_size = 0) =>
        /\ nout.quantity = Corrected(SpecRaised, nin.price, nin.min_notional, 0)
        /\ nout.out.val = FormatFixed(nout.quantity, 8).val

\* C26: no order is submitted with a quantity string worth 0 or less, whatever
\* the action: a quantity that snapping or formatting brought to zero ends as
\* an error of the ticker.
SubmittedQuantities(t) == {OrderCalls(t)[i].quantity.val : i \in 1..Len(OrderCalls(t))}
C26_NoZeroOrder ==
    \A t \in Tickers :
        /\ \A q \in SubmittedQuantities(t) : q > 0
        /\ (Processed(t) /\ enable_execution /\ Tradeable(decisions[t])
              /\ NormOf(t).out.val <= 0) => HasError(results[t])

\* C27: enable_execution is true only with an executor.  A node asked to
\* execute whose executor could not be built is in simulation: its reports
\* say mode "simulation", it makes no exchange call, and no dispatch fails on
\* the missing executor.
C27_NoExecutorMeansSimulation ==
    /\ enable_execution => order_executor
    /\ (requested /\ ~order_executor) =>
          /\ ~enable_execution
          /\ report.present => report.mode = "simulation"
          /\ \A t \in Tickers :
                /\ calls[t] = << >>
                /\ env[t] = NoEnv
                /\ results[t].error # NoExecutorError

\* Such a node has finished its second dispatch, reporting a would-be order.
C27_Witness ==
    /\ requested /\ ~order_executor
    /\ pc = "done" /\ ndisp = 2
    /\ report.mode = "simulation"
    /\ \E t \in Tickers : results[t].present /\ results[t].reason = SimulationReason

\* C28: the action of every result entry is the action of the ticker's input
\* decision, on every path, a trade action with quantity <= 0 included.
C28_ActionEchoed ==
    \A t \in Tickers :
        (results[t].present /\ decisions[t].mapping /\ decisions[t].action # MissingKey) =>
            results[t].action = decisions[t].action

\* C29: a lookup that fails, the metadata call raising or not listing the
\* symbol, leaves the whole symbol cache as it was; a lookup of a symbol that
\* is not cached goes on to issue the metadata call, whatever happened to
\* earlier lookups of it.
Raises(c) == callers[c].at \in {"line42", "line43"} /\ callers'[c].at = "outside"
Enters(c) == callers[c].at = "outside" /\ callers'[c].at # "outside"
C29_FailedLookupKeepsCache ==
    [][\A c \in Callers :
          /\ Raises(c) => cache' = cache
          /\ (Enters(c) /\ ~cache[callers'[c].symbol].cached) => callers'[c].at = "line42"
          /\ (callers[c].at = "line42" /\ callers'[c] # callers[c]) =>
                calls'[callers[c].symbol] = Append(calls[callers[c].symbol], GetExchangeInfo)
      ]_vars

\* A thread whose first lookup of a symbol raised is returning from its second
\* lookup of it, having asked the exchange again, and the symbol is cached.
C29_Witness ==
    \E c \in Callers :
        /\ callers[c].at = "line53"
        /\ callers[c].symbol \in callers[c].raised
        /\ callers[c].exchange_info.kind = "listed"
        /\ cache[callers[c].symbol] = Cached(callers[c].exchange_info.info)
        /\ Len(calls[callers[c].symbol]) >= 2

\* C30: with a positive step, a raw quantity that is not below the effective
\* minimum and whose snapped value clears the notional margin is returned as
\* a string worth at most half a step more or less than the raw quantity.
Abs(n) == IF n < 0 THEN 0 - n ELSE n
Untouched ==
    /\ nin.step_size > 0
    /\ nin.quantity >= SpecEffectiveMin
    /\ ~(/\ nin.min_notional > 0 /\ nin.price > 0
         /\ BelowMargin(Snapped(nin.quantity, nin.step_size) * nin.price,
                        nin.min_notional))
C30_WithinHalfStep ==
    (Returned /\ Untouched) => 2 * Abs(nout.out.val - nin.quantity) <= nin.step_size

====
